---- MODULE Spec2Model ----
(***************************************************************************)
(* The finreels backend: the /feature-reel, /reels-latest and /like-reel   *)
(* handlers of src/server.js (two variants in one file) and src/serverX.js *)
(* (publish only), running as concurrent async handlers against three      *)
(* remote collaborators: the S3 bucket, MediaConvert and the DynamoDB      *)
(* table.  Every `await` of a handler is a point where other requests      *)
(* interleave; the code between two awaits runs as one step.               *)
(***************************************************************************)
EXTENDS Integers, Sequences, FiniteSets, Bags, TLC

\* ----- bounds of the model
MaxReq == 3
MaxClock == 2

\* ----- values of the request inputs
Undefined == "undefined"
NoId == 0
NoJob == 0
StockIds == {"ACME"}
Captions == {"cap"}
Clients == {"c1", "c2"}

\* the bodies of the /feature-reel requests: complete, without
\* stock_identifier, without file
FeatureBodies ==
    {[stock_identifier |-> s, caption |-> c, file |-> TRUE] :
        s \in StockIds \cup {Undefined}, c \in Captions}
    \cup {[stock_identifier |-> s, caption |-> c, file |-> FALSE] :
            s \in StockIds, c \in Captions}

\* the bodies of the /like-reel requests when the reel ids in ids are known:
\* complete, or with one of the three fields left out
LikeBodies(ids) ==
    {[stock_identifier |-> s, reel_id |-> id, client_id |-> c] :
        s \in StockIds, id \in ids, c \in Clients}
    \cup {[stock_identifier |-> Undefined, reel_id |-> 1, client_id |-> "c1"],
          [stock_identifier |-> "ACME", reel_id |-> NoId, client_id |-> "c1"],
          [stock_identifier |-> "ACME", reel_id |-> 1, client_id |-> Undefined]}

\* the `limit` query of a /reels-latest request: absent, or a number
NoLimit == 0
Limits == {NoLimit, 1}

Variants == {"server1", "server2", "serverX"}

CLOUDFRONT_URL == "https://cdn"

VARIABLES
    variant,    \* which of the server programs is running
    reqs,       \* the bag of requests received so far, each with its handler's state
    bucket,     \* S3: the set of object keys stored
    jobs,       \* MediaConvert: the jobs accepted, [Id, FileInput]
    table,      \* DynamoDB: key <<stock_identifier, reel_id>> -> item
    now,        \* the last reading of Date.now(), 0 before the first
    uuids       \* how many reel ids uuidv4() has generated

vars == <<variant, reqs, bucket, jobs, table, now, uuids>>

\* ----- pure helpers of the handlers

\* JS truthiness of a request field: `!x` is true for a missing field.
Missing(x) == x = Undefined

\* `reels/${stock_identifier}_${reel_id}.mp4`
FileName(stock_identifier, reel_id) ==
    "reels/" \o stock_identifier \o "_" \o ToString(reel_id) \o ".mp4"

\* `s3://${S3_BUCKET}/${fileName}`
FileInput(fileName) == "s3://bucket/" \o fileName

\* the media_url of the publish response
PublishMediaUrl(v, stock_identifier, reel_id) ==
    IF v = "server1"
    THEN CLOUDFRONT_URL \o "/" \o FileName(stock_identifier, reel_id)
    ELSE CLOUDFRONT_URL \o "/reels/" \o stock_identifier \o "_"
             \o ToString(reel_id) \o "/index.m3u8"

\* the media_url of a /reels-latest entry
FeedMediaUrl(item) == CLOUDFRONT_URL \o "/" \o item.s3_key

\* a request as it arrives, before its handler has run
NewRequest(kind, stock_identifier, reel_id, client_id, caption, file) ==
    [kind |-> kind, pc |-> "new",
     stock_identifier |-> stock_identifier, reel_id |-> reel_id,
     client_id |-> client_id, caption |-> caption, file |-> file,
     limit |-> NoLimit,
     fileName |-> Undefined, jobId |-> NoJob, timestamp |-> 0,
     likes |-> 0, likedBy |-> <<>>,
     calls |-> <<>>, results |-> <<>>,
     found |-> FALSE, Items |-> <<>>,
     status |-> 0, responses |-> 0, media_url |-> Undefined, reels |-> <<>>,
     updatedReel |-> [likes |-> 0, likedBy |-> <<>>]]

\* res.status(code).json(...): a response is sent and the handler ends
Respond(q, code) ==
    [q EXCEPT !.pc = "done", !.status = code, !.responses = @ + 1]

\* a collaborator call is issued and the handler suspends on its promise
Call(q, op) == [q EXCEPT !.pc = op, !.calls = Append(@, op)]

\* the promise settles
Settle(q, ok) == [q EXCEPT !.results = Append(@, ok)]

\* ----- POST /feature-reel

\* the file check left out
FileAbsent_Skipped(file) == FALSE

\* `if (!file)`
FileAbsent(file) == ~file

\* the reel id not drawn afresh: every reel gets the same one
FeatureReelBegin_SameId(q, id) ==
    IF FileAbsent(q.file)
    THEN Respond(q, 400)
    ELSE Call([q EXCEPT !.reel_id = 1,
                        !.fileName = FileName(q.stock_identifier, 1)],
              "upload")

\* the handler up to its first await
FeatureReelBegin(q, id) ==
    IF FileAbsent(q.file)
    THEN Respond(q, 400)
    ELSE Call([q EXCEPT !.reel_id = id,
                        !.fileName = FileName(q.stock_identifier, id)],
              "upload")

\* a rejected upload swallowed: the pipeline goes on
FeatureReelAfterUpload_Swallow(q, ok) == Call(Settle(q, ok), "createJob")

\* from `await s3.upload` to `await mediaConvert.createJob`
FeatureReelAfterUpload(q, ok) ==
    IF ok
    THEN Call(Settle(q, ok), "createJob")
    ELSE Respond(Settle(q, ok), 500)

\* the jobId attribute of the item: server1 does not store it
ItemJobId(v, jobId) == IF v = "server1" THEN NoJob ELSE jobId

\* a rejected job swallowed: the record is written all the same
FeatureReelAfterCreateJob_Swallow(q, ok, jobId, t) ==
    Call([Settle(q, ok) EXCEPT !.jobId = jobId, !.timestamp = t], "put")

\* from `await mediaConvert.createJob` to `await dynamoDB.put`
FeatureReelAfterCreateJob(q, ok, jobId, t) ==
    IF ok
    THEN Call([Settle(q, ok) EXCEPT !.jobId = jobId, !.timestamp = t], "put")
    ELSE Respond(Settle(q, ok), 500)

\* dbParams.Item
Item(v, q) ==
    [stock_identifier |-> q.stock_identifier, reel_id |-> q.reel_id,
     s3_key |-> q.fileName, caption |-> q.caption,
     likes |-> 0, likedBy |-> <<>>, timestamp |-> q.timestamp,
     jobId |-> ItemJobId(v, q.jobId)]

\* the success response sent without awaiting the outcome of the put
FeatureReelAfterPut_Unawaited(v, q, ok) ==
    Respond([Settle(q, ok) EXCEPT
               !.media_url = PublishMediaUrl(v, q.stock_identifier, q.reel_id)],
            200)

\* from `await dynamoDB.put` to the response
FeatureReelAfterPut(v, q, ok) ==
    IF ok
    THEN Respond([Settle(q, ok) EXCEPT
                    !.media_url = PublishMediaUrl(v, q.stock_identifier, q.reel_id)],
                 200)
    ELSE Respond(Settle(q, ok), 500)

\* the item stored under reel_id alone, the other key scheme
Put_ByReelId(t, item) ==
    LET k == <<Undefined, item.reel_id>>
    IN  [x \in DOMAIN t \cup {k} |-> IF x = k THEN item ELSE t[x]]

\* DynamoDB put: creates the item or replaces the one with the same key
Put(t, item) ==
    LET k == <<item.stock_identifier, item.reel_id>>
    IN  [x \in DOMAIN t \cup {k} |-> IF x = k THEN item ELSE t[x]]

\* ----- GET /reels-latest

\* the comparator with its operands swapped: ascending order
Compare_Ascending(a, b) == a.timestamp - b.timestamp

\* the comparator of `.sort((a, b) => b.timestamp - a.timestamp)`:
\* a negative result places a before b
Compare(a, b) == b.timestamp - a.timestamp

\* Array.prototype.sort is stable: an element goes behind every element
\* that the comparator does not place after it
RECURSIVE InsertSorted(_, _)
InsertSorted(x, sorted) ==
    IF sorted = <<>> THEN <<x>>
    ELSE IF Compare(x, Head(sorted)) < 0
         THEN <<x>> \o sorted
         ELSE <<Head(sorted)>> \o InsertSorted(x, Tail(sorted))

RECURSIVE Sort(_)
Sort(items) ==
    IF items = <<>> THEN <<>>
    ELSE InsertSorted(items[Len(items)], Sort(SubSeq(items, 1, Len(items) - 1)))

\* `.map(item => ({...}))`
Summary(item) ==
    [reel_id |-> item.reel_id, media_url |-> FeedMediaUrl(item),
     stock_identifier |-> item.stock_identifier, caption |-> item.caption,
     likes |-> item.likes, likedBy |-> item.likedBy]

\* an empty scan treated as a failure
ReelsLatestAfterScan_EmptyFails(q, ok, Items) ==
    IF ok /\ Items # <<>>
    THEN Respond([Settle(q, ok) EXCEPT
                    !.Items = Items,
                    !.reels = [i \in 1..Len(Items) |-> Summary(Sort(Items)[i])]],
                 200)
    ELSE Respond(Settle(q, ok), 500)

\* from `await dynamoDB.scan` to the response; req.query is never read
ReelsLatestAfterScan(q, ok, Items) ==
    IF ok
    THEN Respond([Settle(q, ok) EXCEPT
                    !.Items = Items,
                    !.reels = [i \in 1..Len(Items) |-> Summary(Sort(Items)[i])]],
                 200)
    ELSE Respond(Settle(q, ok), 500)

\* the orders in which a scan may return the items of the table
RECURSIVE Orders(_, _)
Orders(t, keys) ==
    IF keys = {} THEN {<<>>}
    ELSE UNION {{<<t[k]>> \o rest : rest \in Orders(t, keys \ {k})} : k \in keys}

\* ----- POST /like-reel

\* the check without its client_id operand
LikeFieldsMissing_NoClientId(q) ==
    Missing(q.stock_identifier) \/ q.reel_id = NoId

\* `if (!stock_identifier || !reel_id || !client_id)`
LikeFieldsMissing(q) ==
    Missing(q.stock_identifier) \/ q.reel_id = NoId \/ Missing(q.client_id)

\* the handler up to its first await
LikeReelBegin(q) ==
    IF LikeFieldsMissing(q) THEN Respond(q, 400) ELSE Call(q, "get")

\* the first like not counted: `reel.likes ? reel.likes + 1 : 0`
NewLikes_FirstLost(reel) == IF reel.likes # 0 THEN reel.likes + 1 ELSE 0

\* `reel.likes ? reel.likes + 1 : 1`
NewLikes(reel) == IF reel.likes # 0 THEN reel.likes + 1 ELSE 1

\* the list kept as a set: a client already in it is not appended again
NewLikedBy_Dedup(reel, client_id) ==
    IF \E i \in 1..Len(reel.likedBy) : reel.likedBy[i] = client_id
    THEN reel.likedBy
    ELSE Append(reel.likedBy, client_id)

\* `reel.likedBy ? [...reel.likedBy, client_id] : [client_id]`
NewLikedBy(reel, client_id) == Append(reel.likedBy, client_id)

\* the `if (!reel)` check left out
LikeReelAfterGet_NoCheck(q, ok, found, reel) ==
    IF ~ok THEN Respond(Settle(q, ok), 500)
    ELSE Call([Settle(q, ok) EXCEPT !.found = found,
                                    !.likes = NewLikes(reel),
                                    !.likedBy = NewLikedBy(reel, q.client_id)],
              "update")

\* the 404 sent without `return`: the handler goes on, reads `reel.likes` of
\* an undefined reel, and the catch block sends a second response
LikeReelAfterGet_NoReturn(q, ok, found, reel) ==
    IF ~ok THEN Respond(Settle(q, ok), 500)
    ELSE IF ~found THEN Respond(Respond(Settle(q, ok), 404), 500)
    ELSE Call([Settle(q, ok) EXCEPT !.found = TRUE,
                                    !.likes = NewLikes(reel),
                                    !.likedBy = NewLikedBy(reel, q.client_id)],
              "update")

\* from `await dynamoDB.get` to `await dynamoDB.update`;
\* found says whether data.Item is present
LikeReelAfterGet(q, ok, found, reel) ==
    IF ~ok THEN Respond(Settle(q, ok), 500)
    ELSE IF ~found THEN Respond(Settle(q, ok), 404)
    ELSE Call([Settle(q, ok) EXCEPT !.found = TRUE,
                                    !.likes = NewLikes(reel),
                                    !.likedBy = NewLikedBy(reel, q.client_id)],
              "update")

\* from `await dynamoDB.update` to the response; attrs is result.Attributes
LikeReelAfterUpdate(q, ok, attrs) ==
    IF ok
    THEN Respond([Settle(q, ok) EXCEPT !.updatedReel = attrs], 200)
    ELSE Respond(Settle(q, ok), 500)

\* the update done as a put of the key and the two attributes: the item is
\* replaced, its other attributes are lost
Update_AsPut(t, k, likes, likedBy) ==
    [x \in DOMAIN t \cup {k} |->
        IF x = k
        THEN [stock_identifier |-> k[1], reel_id |-> k[2],
              s3_key |-> Undefined, caption |-> Undefined,
              likes |-> likes, likedBy |-> likedBy, timestamp |-> 0,
              jobId |-> NoJob]
        ELSE t[x]]

\* DynamoDB update 'set likes = :likes, likedBy = :likedBy': the two
\* attributes of the item under the key are set, the others kept; an absent
\* item is created with the key and the two attributes
Update(t, k, likes, likedBy) ==
    IF k \in DOMAIN t
    THEN [t EXCEPT ![k].likes = likes, ![k].likedBy = likedBy]
    ELSE [x \in DOMAIN t \cup {k} |->
            IF x = k
            THEN [stock_identifier |-> k[1], reel_id |-> k[2],
                  s3_key |-> Undefined, caption |-> Undefined,
                  likes |-> likes, likedBy |-> likedBy, timestamp |-> 0,
                  jobId |-> NoJob]
            ELSE t[x]]

\* ReturnValues: 'UPDATED_NEW'
UpdatedNew(t, k) == [likes |-> t[k].likes, likedBy |-> t[k].likedBy]

Key(q) == <<q.stock_identifier, q.reel_id>>

\* ----- the requests
Requests == BagToSet(reqs)

\* a request arrives
Arrive(q) == reqs (+) SetToBag({q})

\* the handler of request q moves on to q2
Resume(q, q2) == (reqs (-) SetToBag({q})) (+) SetToBag({q2})

Init ==
    /\ variant \in Variants
    /\ reqs = EmptyBag
    /\ bucket = {}
    /\ jobs = {}
    /\ table = <<>>
    /\ now = 0
    /\ uuids = 0

\* a publish request arrives and runs to its first await
StartFeatureReel ==
    /\ BagCardinality(reqs) < MaxReq
    /\ \E b \in FeatureBodies :
         LET q == FeatureReelBegin(NewRequest("feature", b.stock_identifier, NoId,
                                              Undefined, b.caption, b.file),
                                   uuids + 1)
         IN  /\ reqs' = Arrive(q)
             /\ uuids' = IF q.reel_id = NoId THEN uuids ELSE uuids + 1
    /\ UNCHANGED <<variant, bucket, jobs, table, now>>

\* s3.upload settles
UploadReturns ==
    \E q \in Requests, ok \in BOOLEAN :
        /\ q.pc = "upload"
        /\ bucket' = IF ok THEN bucket \cup {q.fileName} ELSE bucket
        /\ reqs' = Resume(q, FeatureReelAfterUpload(q, ok))
        /\ UNCHANGED <<variant, jobs, table, now, uuids>>

\* mediaConvert.createJob settles; Date.now() reads a clock that never
\* runs backwards.  Timestamps are only ever compared, so the readings are
\* kept up to their order: a reading repeats the last one or is the next tick
CreateJobReturns ==
    \E q \in Requests, ok \in BOOLEAN, t \in {now, now + 1} :
        /\ q.pc = "createJob"
        /\ IF ok THEN t \in 1..MaxClock ELSE t = now
        /\ now' = t
        /\ LET id == q.reel_id   \* Job.Id: opaque and unique, here named after the reel
           IN  /\ jobs' = IF ok
                          THEN jobs \cup {[Id |-> id, FileInput |-> FileInput(q.fileName)]}
                          ELSE jobs
               /\ reqs' = Resume(q, FeatureReelAfterCreateJob(q, ok, id, t))
        /\ UNCHANGED <<variant, bucket, table, uuids>>

\* dynamoDB.put settles
PutReturns ==
    \E q \in Requests, ok \in BOOLEAN :
        /\ q.pc = "put"
        /\ table' = IF ok THEN Put(table, Item(variant, q)) ELSE table
        /\ reqs' = Resume(q, FeatureReelAfterPut(variant, q, ok))
        /\ UNCHANGED <<variant, bucket, jobs, now, uuids>>

\* a list request arrives and runs to its first await
StartReelsLatest ==
    /\ variant # "serverX"
    /\ BagCardinality(reqs) < MaxReq
    /\ \E limit \in Limits :
         reqs' = Arrive(Call([NewRequest("latest", Undefined, NoId, Undefined,
                                         Undefined, FALSE) EXCEPT !.limit = limit],
                             "scan"))
    /\ UNCHANGED <<variant, bucket, jobs, table, now, uuids>>

\* dynamoDB.scan settles with the items in some order
ScanReturns ==
    \E q \in Requests, ok \in BOOLEAN :
        /\ q.pc = "scan"
        /\ \E Items \in Orders(table, DOMAIN table) :
               reqs' = Resume(q, ReelsLatestAfterScan(q, ok, Items))
        /\ UNCHANGED <<variant, bucket, jobs, table, now, uuids>>

\* a like request arrives and runs to its first await
StartLikeReel ==
    /\ variant # "serverX"
    /\ BagCardinality(reqs) < MaxReq
    /\ \E b \in LikeBodies(1..uuids) :
         reqs' = Arrive(LikeReelBegin(NewRequest("like", b.stock_identifier, b.reel_id,
                                                 b.client_id, Undefined, FALSE)))
    /\ UNCHANGED <<variant, bucket, jobs, table, now, uuids>>

\* dynamoDB.get settles
GetReturns ==
    \E q \in Requests, ok \in BOOLEAN :
        /\ q.pc = "get"
        /\ LET k == Key(q)
               found == k \in DOMAIN table
               reel == IF found THEN table[k] ELSE [likes |-> 0, likedBy |-> <<>>]
           IN  reqs' = Resume(q, LikeReelAfterGet(q, ok, found, reel))
        /\ UNCHANGED <<variant, bucket, jobs, table, now, uuids>>

\* dynamoDB.update settles
UpdateReturns ==
    \E q \in Requests, ok \in BOOLEAN :
        /\ q.pc = "update"
        /\ LET k == Key(q)
               t == Update(table, k, q.likes, q.likedBy)
           IN  /\ table' = IF ok THEN t ELSE table
               /\ reqs' = Resume(q, LikeReelAfterUpdate(q, ok, UpdatedNew(t, k)))
        /\ UNCHANGED <<variant, bucket, jobs, now, uuids>>

Next ==
    \/ StartFeatureReel
    \/ UploadReturns
    \/ CreateJobReturns
    \/ PutReturns
    \/ StartReelsLatest
    \/ ScanReturns
    \/ StartLikeReel
    \/ GetReturns
    \/ UpdateReturns

Spec == Init /\ [][Next]_vars

\* every collaborator call eventually returns: a promise that a handler
\* awaits settles, with success or with failure
FairSpec ==
    /\ Spec
    /\ WF_vars(UploadReturns) /\ WF_vars(CreateJobReturns) /\ WF_vars(PutReturns)
    /\ WF_vars(ScanReturns)
    /\ WF_vars(GetReturns) /\ WF_vars(UpdateReturns)

\* ----- the same server when the likes of a reel do not overlap: a like
\* request arrives only while no other like of the same reel is in flight
StartLikeReelAlone ==
    /\ variant # "serverX"
    /\ BagCardinality(reqs) < MaxReq
    /\ \E b \in LikeBodies(1..uuids) :
         LET q == LikeReelBegin(NewRequest("like", b.stock_identifier, b.reel_id,
                                           b.client_id, Undefined, FALSE))
         IN  /\ \A o \in Requests :
                   (o.kind = "like" /\ Key(o) = Key(q)) => o.pc = "done"
             /\ reqs' = Arrive(q)
    /\ UNCHANGED <<variant, bucket, jobs, table, now, uuids>>

NextSeq ==
    \/ StartFeatureReel
    \/ UploadReturns
    \/ CreateJobReturns
    \/ PutReturns
    \/ StartReelsLatest
    \/ ScanReturns
    \/ StartLikeReelAlone
    \/ GetReturns
    \/ UpdateReturns

SeqSpec == Init /\ [][NextSeq]_vars

\* ======================================================================
\* The claims

Features == {q \in Requests : q.kind = "feature"}
Likes == {q \in Requests : q.kind = "like"}
Latests == {q \in Requests : q.kind = "latest"}

IsPrefix(a, b) == Len(a) <= Len(b) /\ SubSeq(b, 1, Len(a)) = a

Range(f) == {f[i] : i \in DOMAIN f}

\* the like requests addressed to the reel with key k
LikesOf(k) == {q \in Likes : ~LikeFieldsMissing(q) /\ Key(q) = k}

\* C1: once all the likes of a reel, sent by pairwise distinct clients, have
\* completed successfully, the reel's likes counter is the number of those
\* likes and its likedBy list holds exactly their client ids, each once.
CE_C1_NoLikeLost ==
    \A k \in DOMAIN table :
        LET L == LikesOf(k)
        IN  (/\ \A q \in L : q.status = 200 /\ CopiesIn(q, reqs) = 1
             /\ \A q1, q2 \in L : q1.client_id = q2.client_id => q1 = q2)
            => /\ table[k].likes = Cardinality(L)
               /\ Len(table[k].likedBy) = Cardinality(L)
               /\ Range(table[k].likedBy) = {q.client_id : q \in L}

\* C2: from one state to the next no record disappears, no likes counter
\* decreases and every likedBy list keeps its previous value as a prefix.
CE_C2_LikesOnlyGrow ==
    [][\A k \in DOMAIN table :
          /\ k \in DOMAIN table'
          /\ table'[k].likes >= table[k].likes
          /\ IsPrefix(table[k].likedBy, table'[k].likedBy)]_vars

\* C3: a publish request without a file is answered 400 on arrival and has
\* issued no collaborator call; while no request carried a file, the bucket,
\* the job list and the table are untouched.
C3_NoFileNoWork ==
    /\ \A q \in Features :
          ~q.file => q.pc = "done" /\ q.status = 400 /\ q.calls = <<>>
    /\ (\A q \in Features : ~q.file) => bucket = {} /\ jobs = {} /\ table = <<>>

C3_Witness == \E q \in Features : ~q.file /\ q.status = 400

\* C4: a publish request whose upload failed has ended with 500 after that
\* one call: no job was submitted for its file and no record holds its key.
C4_UploadFailureAborts ==
    \A q \in Features :
        (Len(q.results) >= 1 /\ ~q.results[1])
        => /\ q.pc = "done" /\ q.status = 500
           /\ q.calls = <<"upload">>
           /\ \A j \in jobs : j.FileInput # FileInput(q.fileName)
           /\ \A k \in DOMAIN table : table[k].reel_id # q.reel_id

C4_Witness == \E q \in Features : q.results = <<FALSE>> /\ q.status = 500

\* C5: a publish request whose job submission failed after a successful
\* upload has ended with 500 without a put; its object stays in the bucket
\* and no record refers to it.
C5_JobFailureLeavesOrphan ==
    \A q \in Features :
        (Len(q.results) >= 2 /\ q.results[1] /\ ~q.results[2])
        => /\ q.pc = "done" /\ q.status = 500
           /\ q.calls = <<"upload", "createJob">>
           /\ q.fileName \in bucket
           /\ \A k \in DOMAIN table :
                 table[k].reel_id # q.reel_id /\ table[k].s3_key # q.fileName

C5_Witness ==
    \E q \in Features : q.results = <<TRUE, FALSE>> /\ q.fileName \in bucket

\* C6: a publish request issues upload, createJob and put in that order,
\* each after the previous one succeeded; it is answered 200 only after all
\* three succeeded and 500 as soon as one failed, the later ones not being
\* issued; a failed put leaves the object and the job without a record.
C6_NoPartialSuccess ==
    \A q \in Features :
        /\ q.calls = SubSeq(<<"upload", "createJob", "put">>, 1, Len(q.calls))
        /\ \A i \in 1..Len(q.results) : ~q.results[i] => i = Len(q.calls)
        /\ q.status = 200 => q.results = <<TRUE, TRUE, TRUE>>
        /\ (\E i \in 1..Len(q.results) : ~q.results[i])
              => q.pc = "done" /\ q.status = 500
        /\ q.results = <<TRUE, TRUE, FALSE>>
              => /\ q.fileName \in bucket
                 /\ \E j \in jobs : j.Id = q.jobId
                 /\ \A k \in DOMAIN table : table[k].reel_id # q.reel_id

C6_Witness ==
    /\ \E q \in Features : q.status = 200
    /\ \E q \in Features : q.results = <<TRUE, TRUE, FALSE>> /\ q.status = 500

\* C7: every entry of a /reels-latest response carries the media_url that
\* the successful publish of that reel (a request with a stock_identifier)
\* returned.
CE_C7_RoundTrip ==
    \A l \in Latests, p \in Features :
        (l.status = 200 /\ p.status = 200 /\ ~Missing(p.stock_identifier))
        => \A i \in 1..Len(l.reels) :
              l.reels[i].reel_id = p.reel_id => l.reels[i].media_url = p.media_url

\* C8: a like request whose get found no item has ended with 404 and has
\* issued no call but that get.
C8_UnknownReelIs404 ==
    \A q \in Likes :
        /\ (q.results = <<TRUE>> /\ ~q.found)
              => q.pc = "done" /\ q.status = 404 /\ q.calls = <<"get">>
        /\ q.status = 404 => q.calls = <<"get">> /\ q.results = <<TRUE>>
        /\ "update" \in Range(q.calls) => q.found

C8_Witness == \E q \in Likes : q.status = 404 /\ Key(q) \notin DOMAIN table

\* C9: a publish request with a file but without stock_identifier is
\* answered 400 and issues no collaborator call.
CE_C9_StockIdentifierRequired ==
    \A q \in Features :
        (q.file /\ Missing(q.stock_identifier))
        => q.calls = <<>> /\ (q.pc = "done" => q.status = 400)

\* C10: a /reels-latest response holds one entry for each item the scan
\* returned, and of two adjacent entries the first has the greater or equal
\* timestamp, whatever the order of the scan.
TimestampOf(l, i) ==
    (CHOOSE it \in Range(l.Items) : it.reel_id = l.reels[i].reel_id).timestamp

C10_SortedByTimestampDesc ==
    \A l \in Latests :
        l.status = 200
        => /\ Len(l.reels) = Len(l.Items)
           /\ {e.reel_id : e \in Range(l.reels)} = {it.reel_id : it \in Range(l.Items)}
           /\ \A i, j \in 1..Len(l.reels) :
                 l.reels[i].reel_id = l.reels[j].reel_id => i = j
           /\ \A i \in 1..Len(l.reels) - 1 : TimestampOf(l, i) >= TimestampOf(l, i + 1)

C10_Witness ==
    \E l \in Latests :
        /\ l.status = 200
        /\ Len(l.Items) = 2
        /\ l.Items[1].timestamp < l.Items[2].timestamp

\* C11: the response to a /reels-latest request with limit L holds at most L
\* entries: the first L of the items in descending order of timestamp, or
\* all of them when there are fewer.
Min(a, b) == IF a <= b THEN a ELSE b

CE_C11_LimitTruncates ==
    \A l \in Latests :
        (l.status = 200 /\ l.limit # NoLimit)
        => /\ Len(l.reels) = Min(l.limit, Len(l.Items))
           /\ \A i \in 1..Len(l.reels) : l.reels[i] = Summary(Sort(l.Items)[i])

\* C12: the media_url of a successful publish is in transcoded mode,
\* {base}/reels/{stock_identifier}_{reel_id}/index.m3u8, whenever the request
\* submitted a job, and in direct mode, {base}/{s3_key}, only when it
\* submitted none.
TranscodedModeUrl(q) ==
    CLOUDFRONT_URL \o "/reels/" \o q.stock_identifier \o "_"
        \o ToString(q.reel_id) \o "/index.m3u8"

DirectModeUrl(q) == CLOUDFRONT_URL \o "/" \o q.fileName

SubmittedJob(q) == \E i \in 1..Len(q.results) : q.calls[i] = "createJob" /\ q.results[i]

CE_C12_UrlModeMatchesJob ==
    \A q \in Features :
        (q.status = 200 /\ ~Missing(q.stock_identifier))
        => /\ SubmittedJob(q) => q.media_url = TranscodedModeUrl(q)
           /\ q.media_url = DirectModeUrl(q) => ~SubmittedJob(q)

\* C13: a record (of a request with a stock_identifier) enters the table with likes 0, an empty likedBy, the s3_key
\* reels/{stock_identifier}_{reel_id}.mp4 and, when a job was accepted for
\* that file, the id of that job.
CE_C13_RecordAsWritten ==
    [][\A k \in DOMAIN table' \ DOMAIN table :
          LET it == table'[k]
          IN  ~Missing(it.stock_identifier)
              => /\ it.likes = 0
                 /\ it.likedBy = <<>>
                 /\ it.s3_key = FileName(it.stock_identifier, it.reel_id)
                 /\ \A j \in jobs :
                       j.FileInput = FileInput(it.s3_key) => it.jobId = j.Id]_vars

\* in a step: the handler of q has moved on, and the request it has become
Stepped(q) == CopiesIn(q, reqs') < CopiesIn(q, reqs)

Resumed == {q2 \in BagToSet(reqs') : CopiesIn(q2, reqs') > CopiesIn(q2, reqs)}

\* the number of like requests of the reel with key k answered 200
LikedTimes(k) ==
    LET L == {q \in LikesOf(k) : q.status = 200}
        RECURSIVE Sum(_)
        Sum(S) == IF S = {} THEN 0
                  ELSE LET q == CHOOSE x \in S : TRUE
                       IN  CopiesIn(q, reqs) + Sum(S \ {q})
    IN  Sum(L)

\* C14: when the likes of a reel do not overlap, a like answered 200 raises
\* likes by one and appends its client_id at the end of likedBy, whether or
\* not the client is in the list already, and the response carries the values
\* written; so the counter and the length of the list are the number of
\* likes answered 200.
C14_LikeAloneAppends ==
    /\ [](\A k \in DOMAIN table :
             table[k].likes = LikedTimes(k) /\ Len(table[k].likedBy) = LikedTimes(k))
    /\ [][\A q \in Likes :
             (q.pc = "update" /\ Stepped(q))
             => \A q2 \in Resumed :
                   q2.status = 200
                   => LET k == Key(q)
                      IN  /\ table'[k].likes = table[k].likes + 1
                          /\ table'[k].likedBy = Append(table[k].likedBy, q.client_id)
                          /\ q2.updatedReel = [likes |-> table'[k].likes,
                                               likedBy |-> table'[k].likedBy]]_vars

C14_Witness ==
    \E k \in DOMAIN table :
        /\ table[k].likes = 2
        /\ table[k].likedBy = <<"c1", "c1">>
        /\ \E q \in Likes : q.status = 200 /\ q.updatedReel.likes = 2

\* C15: in every step each record stays in the table with its
\* stock_identifier, reel_id, s3_key, caption, timestamp and jobId unchanged;
\* the update of a like leaves every record but the one under its key as it
\* was and adds none.
C15_LikeFrame ==
    [][/\ \A k \in DOMAIN table :
             /\ k \in DOMAIN table'
             /\ table'[k].stock_identifier = table[k].stock_identifier
             /\ table'[k].reel_id = table[k].reel_id
             /\ table'[k].s3_key = table[k].s3_key
             /\ table'[k].caption = table[k].caption
             /\ table'[k].timestamp = table[k].timestamp
             /\ table'[k].jobId = table[k].jobId
       /\ \A q \in Likes :
             Stepped(q)
             => /\ DOMAIN table' = DOMAIN table
                /\ \A k \in DOMAIN table : k # Key(q) => table'[k] = table[k]]_vars

C15_Witness ==
    \E k1, k2 \in DOMAIN table :
        /\ k1 # k2
        /\ table[k1].likes = 1 /\ table[k1].timestamp > 0
        /\ table[k2].likes = 0

\* C16: the record of a successful publish is stored under
\* <<stock_identifier, reel_id>>; a like with that key whose get or update
\* settles after the publish succeeded is never answered 404, and its update
\* changes that record and adds none.
C16_KeyUniform ==
    /\ [](\A p \in Features :
             p.status = 200
             => /\ Key(p) \in DOMAIN table
                /\ table[Key(p)].stock_identifier = p.stock_identifier
                /\ table[Key(p)].reel_id = p.reel_id)
    /\ [][\A q \in Likes, p \in Features :
             (Stepped(q) /\ p.status = 200 /\ Key(p) = Key(q))
             => \A q2 \in Resumed :
                   /\ q2.status # 404
                   /\ (q.pc = "update" /\ q2.status = 200)
                         => /\ DOMAIN table' = DOMAIN table
                            /\ table'[Key(p)].likes = q.likes
                            /\ table'[Key(p)].s3_key = p.fileName]_vars

C16_Witness ==
    \E p \in Features, q \in Likes :
        /\ p.status = 200 /\ q.status = 200
        /\ Key(q) = Key(p)
        /\ Cardinality(DOMAIN table) = 1
        /\ table[Key(p)].likes = 1

\* C17: a like request without stock_identifier, reel_id or client_id is
\* answered 400 on arrival and has issued no call to the table.
C17_LikeFieldsRequired ==
    \A q \in Likes :
        (Missing(q.stock_identifier) \/ q.reel_id = NoId \/ Missing(q.client_id))
        => q.pc = "done" /\ q.status = 400 /\ q.calls = <<>>

C17_Witness ==
    /\ \E q \in Likes : Missing(q.stock_identifier) /\ q.status = 400
    /\ \E q \in Likes : q.reel_id = NoId /\ q.status = 400
    /\ \E q \in Likes : Missing(q.client_id) /\ q.status = 400

\* C18: a /reels-latest request whose scan succeeded is answered 200, with
\* the empty sequence when the scan returned no item.
C18_EmptyStoreIsOk ==
    \A l \in Latests :
        l.results = <<TRUE>>
        => /\ l.pc = "done" /\ l.status = 200
           /\ l.Items = <<>> => l.reels = <<>>

C18_Witness ==
    \E l \in Latests :
        l.status = 200 /\ l.Items = <<>> /\ l.reels = <<>> /\ table = <<>>

\* C19: publish requests with a file never share a reel id; each issues at
\* most one put, to a key that no record has while the put is pending; the
\* table holds as many records as puts have succeeded.
Puts(q) == Cardinality({i \in 1..Len(q.calls) : q.calls[i] = "put"})

PutSucceeded(q) == q.results = <<TRUE, TRUE, TRUE>>

C19_CreatedOnce ==
    /\ \A p \in Features :
          ~FileAbsent(p.file)
          => /\ CopiesIn(p, reqs) = 1
             /\ \A o \in Features : o.reel_id = p.reel_id => o = p
             /\ Puts(p) <= 1
             /\ PutSucceeded(p) => Puts(p) = 1 /\ Key(p) \in DOMAIN table
             /\ p.pc = "put" => Key(p) \notin DOMAIN table
    /\ Cardinality(DOMAIN table) = Cardinality({p \in Features : PutSucceeded(p)})

C19_Witness ==
    \E p1, p2 \in Features :
        /\ p1 # p2
        /\ p1.stock_identifier = p2.stock_identifier /\ p1.caption = p2.caption
        /\ p1.status = 200 /\ p2.status = 200
        /\ Cardinality(DOMAIN table) = 2

\* C20: the likes counter of every record is the length of its likedBy list.
C20_LikesIsLength ==
    \A k \in DOMAIN table : table[k].likes = Len(table[k].likedBy)

C20_Witness ==
    \E k \in DOMAIN table :
        /\ table[k].likes = 1
        /\ \E q1, q2 \in LikesOf(k) :
              q1.client_id # q2.client_id /\ q1.status = 200 /\ q2.status = 200

\* C21: no dangling record.  Every record of the table was written by a
\* publish request that had, before its put, uploaded the object named by the
\* record's s3_key and submitted a job reading that object, both with
\* success; the object is in the bucket and the job is among the jobs.
C21_NoDanglingRecord ==
    \A k \in DOMAIN table :
        /\ table[k].s3_key \in bucket
        /\ \E j \in jobs : j.FileInput = FileInput(table[k].s3_key)
        /\ \E p \in Features :
              /\ Key(p) = k
              /\ p.fileName = table[k].s3_key
              /\ p.calls = <<"upload", "createJob", "put">>
              /\ p.results = <<TRUE, TRUE, TRUE>>

\* a record next to the two kinds of orphan: an object without a job or a
\* record, and an object with a job but without a record
C21_Witness ==
    /\ DOMAIN table # {}
    /\ \E o1, o2 \in bucket :
          /\ \A k \in DOMAIN table : table[k].s3_key \notin {o1, o2}
          /\ \A j \in jobs : j.FileInput # FileInput(o1)
          /\ \E j \in jobs : j.FileInput = FileInput(o2)

\* C22: every request gets exactly one response.  At every moment a request
\* has been answered at most once, it has been answered exactly when its
\* handler has ended, and the answer is 200, 400, 404 or 500; and when every
\* collaborator call eventually returns, from some moment on every request
\* that has arrived has been answered.
ResponseCodes == {200, 400, 404, 500}

AnsweredOnce(q) ==
    /\ q.pc = "done" /\ q.responses = 1 /\ q.status \in ResponseCodes

C22_ExactlyOneResponse ==
    /\ [](\A q \in Requests :
            /\ q.responses <= 1
            /\ q.responses = 1 <=> q.pc = "done"
            /\ q.pc = "done" => q.status \in ResponseCodes)
    /\ <>[](\A q \in Requests : AnsweredOnce(q))

\* three requests answered once each: a publish after its three calls, a
\* like of an unknown reel, and a request whose collaborator call failed
C22_Witness ==
    /\ \A q \in Requests : AnsweredOnce(q)
    /\ \E p \in Features : p.status = 200 /\ Len(p.calls) = 3
    /\ \E l \in Likes : l.status = 404
    /\ \E q \in Requests : q.status = 500 /\ q.results # <<>>
====
